---- MODULE Spec2Model ----
(***************************************************************************)
(* Model of batch.go: the Batch of a redis cluster client.  Put routes a   *)
(* command to a node and enqueues it in the node's group, RunBatch runs    *)
(* one doBatch executor per group, joins them and rebuilds the replies in  *)
(* submission order.                                                       *)
(*                                                                         *)
(* Conventions: a command name is a sequence of one-letter strings, so     *)
(* that letter case is data; Go's nil is Nil for a node, NilErr for an     *)
(* error and NilReply for a reply; positions are 1-based where Go's are    *)
(* 0-based (index holds i+1 for Go's i).                                   *)
(***************************************************************************)
EXTENDS Integers, Sequences, FiniteSets, TLC

VARIABLES
    batches,            \* Batch.batches: sequence of nodeBatch
    index,              \* Batch.index: per accepted Put, the group position
    transactionEnable,  \* Cluster.transactionEnable
    transactionNode,    \* Cluster.transactionNode
    putCall,            \* the arguments of the last Put call, and what
                        \* getRandomNode returned to it
    putRet,             \* what the last Put call returned
    calls,              \* history: the arguments of the Put calls that returned nil
    pc,                 \* RunBatch: position of the dispatcher
    li,                 \* RunBatch: loop variable of the launch and join loops
    wi,                 \* RunBatch: position of the walk over index
    replies,            \* RunBatch: the local slice replies
    runRet,             \* what RunBatch returned
    exec,               \* per group: state of its doBatch goroutine and connection
    other               \* the second Batch of the cluster, the one the caller
                        \* is not calling: its batches, index and history

vars == <<batches, index, transactionEnable, transactionNode, putCall, putRet, calls,
          pc, li, wi, replies, runRet, exec, other>>

batchVars == <<batches, index>>
clusterVars == <<transactionEnable, transactionNode>>
putVars == <<putCall, putRet, calls>>
runVars == <<pc, li, wi, replies, runRet, exec>>

-----------------------------------------------------------------------------
(* Bounds *)

MaxPuts == 4        \* accepted Put calls per Batch, Put-only specifications
MaxRunPuts == 3     \* accepted Put calls per Batch when RunBatch is explored
MaxTxPuts == 5      \* accepted Put calls, transaction-only specification
MaxTwoPuts == 3     \* accepted Put calls on the two Batches of one cluster

-----------------------------------------------------------------------------
(* Values *)

Nil == "nil"
Nodes == {"A", "B"}
NilErr == <<>>
NilReply == <<>>

PING == <<"P", "I", "N", "G">>
MGET == <<"M", "G", "E", "T">>
MSET == <<"M", "S", "E", "T">>
MSETNX == <<"M", "S", "E", "T", "N", "X">>
MULTI == <<"M", "U", "L", "T", "I">>
EXEC == <<"E", "X", "E", "C">>
GET == <<"G", "E", "T">>

\* Command names a caller passes to Put, in several letter cases.
Cmds ==
    { PING, <<"p", "i", "n", "g">>,
      MGET, <<"m", "s", "e", "t">>, <<"M", "s", "e", "t", "N", "x">>,
      MULTI, EXEC, GET }

TxCmds == { MULTI, EXEC, GET }
RunCmds == { MULTI, GET, PING }

\* Keys a caller passes as args[0].  The dynamic type of the key is part of
\* the value: "s" is a Go string, the others are []byte.
Keys == {"a", "b", "s", "x"}
TxKeys == Keys
RunKeys == {"a", "b", "x"}
TwoKeys == {"a", "b", "s"}

IsBytes(key) == key # "s"

LowerCase == <<"a", "b", "c", "d", "e", "f", "g", "h", "i", "j", "k", "l", "m",
               "n", "o", "p", "q", "r", "s", "t", "u", "v", "w", "x", "y", "z">>
UpperCase == <<"A", "B", "C", "D", "E", "F", "G", "H", "I", "J", "K", "L", "M",
               "N", "O", "P", "Q", "R", "S", "T", "U", "V", "W", "X", "Y", "Z">>

\* unicode.ToUpper on the letters a-z; every other character maps to itself
UpperOf ==
    [c \in {LowerCase[k] : k \in 1..Len(LowerCase)} |->
        UpperCase[CHOOSE k \in 1..Len(LowerCase) : LowerCase[k] = c]]

UpperChar(c) == IF c \in DOMAIN UpperOf THEN UpperOf[c] ELSE c

\* strings.ToUpper
ToUpper(s) == [k \in 1..Len(s) |-> UpperChar(s[k])]

\* strings.EqualFold, on ASCII letters
EqualFold(s, t) == ToUpper(s) = ToUpper(t)

-----------------------------------------------------------------------------
(* The cluster collaborator *)

\* Cluster.getNodeByKey with a stub router: "a" is served by node A, "b" and
\* "s" by node B, and the lookup of "x" fails.
getNodeByKey(key) ==
    CASE key = "a" -> [node |-> "A", err |-> NilErr]
      [] key = "b" -> [node |-> "B", err |-> NilErr]
      [] key = "s" -> [node |-> "B", err |-> NilErr]
      [] OTHER -> [node |-> Nil, err |-> <<"lookup", key>>]

\* Cluster.getRandomNode: any node, or a failure.
getRandomNode ==
    { [node |-> n, err |-> NilErr] : n \in Nodes }
        \cup { [node |-> Nil, err |-> <<"nonode">>] }

-----------------------------------------------------------------------------
(* Put *)

ErrPing == "Put PING: no node"
ErrNotSupported == "Put: not supported"
ErrNoKey == "Put: no key found in args"
ErrLookup == "Put: lookup failed"
ErrSlot == "transaction command key not hashed in the same slot"
Panic == "panic: interface conversion"
Ok == "nil"

PutErrors == {ErrPing, ErrNotSupported, ErrNoKey, ErrLookup, ErrSlot}

\* The outcome of the routing part of Put: what Put returns at that point
\* (Ok when it goes on to the enqueue step), the node variable, and the
\* cluster's transaction fields.
Routed(ret, node, en, tn) ==
    [ret |-> ret, node |-> node, enable |-> en, tnode |-> tn]

\* Mutant of TxCheck: a keyed command on another node than the pinned one is
\* accepted.
TxCheck_Accept(node, key, en, tn) ==
    Routed(Ok, node, en, IF en /\ tn = Nil THEN node ELSE tn)

\* Lines 85-92: the same-node check of a keyed command.  With the transaction
\* active and a different node pinned the error message converts args[0] with
\* the type assertion args[0].([]byte), which panics on any other type.
TxCheck(node, key, en, tn) ==
    IF en
    THEN IF tn = Nil
         THEN Routed(Ok, node, en, node)
         ELSE IF tn # node
              THEN Routed(IF IsBytes(key) THEN ErrSlot ELSE Panic, node, en, tn)
              ELSE Routed(Ok, node, en, tn)
    ELSE Routed(Ok, node, en, tn)

\* Lines 76-92: the default case of the switch.
RouteKeyed(args, en, tn) ==
    IF Len(args) < 1
    THEN Routed(ErrNoKey, Nil, en, tn)
    ELSE LET r == getNodeByKey(args[1]) IN
         IF r.err # NilErr
         THEN Routed(ErrLookup, r.node, en, tn)
         ELSE TxCheck(r.node, args[1], en, tn)

\* Mutant of Route: PING passes through the same-node check of the transaction.
Route_PingChecked(cmd, args, rnd, en, tn) ==
    IF EqualFold(cmd, PING)
    THEN IF rnd.err # NilErr
         THEN Routed(ErrPing, rnd.node, en, tn)
         ELSE TxCheck(rnd.node, "a", en, tn)
    ELSE LET u == ToUpper(cmd) IN
         CASE u \in {MGET, MSET, MSETNX} -> Routed(ErrNotSupported, Nil, en, tn)
           [] u = MULTI -> Routed(Ok, Nil, TRUE, tn)
           [] u = EXEC -> Routed(Ok, Nil, FALSE, tn)
           [] OTHER -> RouteKeyed(args, en, tn)

\* Lines 55-94: rnd is what getRandomNode returns if it is called.
Route(cmd, args, rnd, en, tn) ==
    IF EqualFold(cmd, PING)
    THEN IF rnd.err # NilErr
         THEN Routed(ErrPing, rnd.node, en, tn)
         ELSE Routed(Ok, rnd.node, en, tn)
    ELSE LET u == ToUpper(cmd) IN
         CASE u \in {MGET, MSET, MSETNX} -> Routed(ErrNotSupported, Nil, en, tn)
           [] u = MULTI -> Routed(Ok, Nil, TRUE, tn)
           [] u = EXEC -> Routed(Ok, Nil, FALSE, tn)
           [] OTHER -> RouteKeyed(args, en, tn)

\* nodeCommand{cmd: cmd, args: args}
NewCommand(cmd, args) ==
    [cmd |-> cmd, args |-> args, reply |-> NilReply, err |-> NilErr]

\* Mutant of ScanGroups: the scan never finds the node.
ScanGroups_Fresh(bs, node) == Len(bs) + 1

\* Lines 97-105: the value of i after the scan loop: the first group whose
\* node is the given one, or one past the last group.
ScanGroups(bs, node) ==
    IF \E i \in 1..Len(bs) : bs[i].node = node
    THEN CHOOSE i \in 1..Len(bs) :
            /\ bs[i].node = node
            /\ \A j \in 1..(i - 1) : bs[j].node # node
    ELSE Len(bs) + 1

\* Mutant of Enqueue: a command appended to an existing group is not entered
\* in index.
Enqueue_NoIndex(bs, idx, node, cmd, args) ==
    LET i == ScanGroups(bs, node) IN
    IF i <= Len(bs)
    THEN [batches |-> [bs EXCEPT ![i].cmds = Append(@, NewCommand(cmd, args))],
          index |-> idx]
    ELSE [batches |-> Append(bs, [node |-> node,
                                  cmds |-> <<NewCommand(cmd, args)>>,
                                  err |-> NilErr,
                                  done |-> 0]),
          index |-> Append(idx, i)]

\* Lines 96-114: the enqueue step.  done counts the values that have passed
\* through the group's channel.
Enqueue(bs, idx, node, cmd, args) ==
    LET i == ScanGroups(bs, node) IN
    IF i <= Len(bs)
    THEN [batches |-> [bs EXCEPT ![i].cmds = Append(@, NewCommand(cmd, args))],
          index |-> Append(idx, i)]
    ELSE [batches |-> Append(bs, [node |-> node,
                                  cmds |-> <<NewCommand(cmd, args)>>,
                                  err |-> NilErr,
                                  done |-> 0]),
          index |-> Append(idx, i)]

\* Mutant of PutCall: the command is enqueued before the same-node check, so
\* a same-slot violation leaves it in the Batch.
PutCall_EnqueueFirst(cmd, args, rnd) ==
    LET r == Route(cmd, args, rnd, transactionEnable, transactionNode) IN
    /\ transactionEnable' = r.enable
    /\ transactionNode' = r.tnode
    /\ putCall' = [cmd |-> cmd, args |-> args, rnd |-> rnd]
    /\ putRet' = r.ret
    /\ IF r.ret \in {Ok, ErrSlot}
       THEN LET e == Enqueue(batches, index, r.node, cmd, args) IN
            /\ batches' = e.batches
            /\ index' = e.index
            /\ calls' = IF r.ret = Ok
                        THEN Append(calls, [cmd |-> cmd, args |-> args])
                        ELSE calls
       ELSE UNCHANGED <<batches, index, calls>>

\* Batch.Put(cmd, args...)
PutCall(cmd, args, rnd) ==
    LET r == Route(cmd, args, rnd, transactionEnable, transactionNode) IN
    /\ transactionEnable' = r.enable
    /\ transactionNode' = r.tnode
    /\ putCall' = [cmd |-> cmd, args |-> args, rnd |-> rnd]
    /\ putRet' = r.ret
    /\ IF r.ret = Ok
       THEN LET e == Enqueue(batches, index, r.node, cmd, args) IN
            /\ batches' = e.batches
            /\ index' = e.index
            /\ calls' = Append(calls, [cmd |-> cmd, args |-> args])
       ELSE UNCHANGED <<batches, index, calls>>

\* The calls a caller makes: PING, MULTI and EXEC without arguments, every
\* other command without arguments or with a key and a marker that tells the
\* calls apart.
TakesKey(cmd) == ToUpper(cmd) \notin {PING, MULTI, EXEC}

ArgsOf(cmd, keys) ==
    IF TakesKey(cmd)
    THEN {<<>>} \cup { <<k, Len(index) + 1>> : k \in keys }
    ELSE {<<>>}

\* getRandomNode was not called
NoRandom == [node |-> Nil, err |-> NilErr]

RandomOf(cmd) ==
    IF EqualFold(cmd, PING) THEN getRandomNode
    ELSE { NoRandom }

Put(cmds, keys, limit) ==
    /\ pc = "put"
    /\ Len(index) < limit
    /\ \E cmd \in cmds :
          \E args \in ArgsOf(cmd, keys), rnd \in RandomOf(cmd) :
             PutCall(cmd, args, rnd)
    /\ UNCHANGED <<runVars, other>>

-----------------------------------------------------------------------------
(* The node and connection collaborators *)

\* What redisNode.getConn can return.  A group whose node is nil has no node
\* to ask: the call fails or dereferences the nil receiver.
getConn(node) ==
    IF node = Nil
    THEN {"err", "panic"}
    ELSE {"ok", "err"}

\* What redisConn.flush and redisConn.receive can return.
IoOutcomes == {"ok", "err"}

\* The reply a node produces for a command it was sent.
ReplyOf(node, c) == <<node, c.cmd, c.args>>

\* The error values the collaborators return for a group.
ConnErr(node) == <<"getConn", node>>
FlushErr(node) == <<"flush", node>>
ReadErr(node, k) == <<"receive", node, k>>

-----------------------------------------------------------------------------
(* doBatch: one goroutine per group g *)

\* A goroutine that was not started yet, and its connection: conn is the
\* state of the connection, buf its pending send buffer, wire what was
\* transmitted, k the loop variable of the read loop; released and shutdowns
\* count the calls of releaseConn and of shutdown.
IdleExec ==
    [pc |-> "idle", conn |-> "none", buf |-> <<>>, wire |-> <<>>, k |-> 0,
     released |-> 0, shutdowns |-> 0]

Running == pc \in {"launch", "join"}

\* Mutant of ConnFailed: the goroutine returns without the send on done.
ConnFailed_NoSignal(g) ==
    /\ batches' = [batches EXCEPT ![g].err = ConnErr(batches[g].node)]
    /\ exec' = [exec EXCEPT ![g].pc = "returned"]
    /\ UNCHANGED pc

\* Lines 145-149: the exit of doBatch when getConn fails.
ConnFailed(g) ==
    /\ batches' = [batches EXCEPT ![g].err = ConnErr(batches[g].node)]
    /\ exec' = [exec EXCEPT ![g].pc = "signal"]
    /\ UNCHANGED pc

\* Line 144 with lines 145-149
GetConn(g) ==
    /\ Running
    /\ exec[g].pc = "getConn"
    /\ \E out \in getConn(batches[g].node) :
          CASE out = "ok" ->
                 /\ exec' = [exec EXCEPT ![g].pc = "send", ![g].conn = "acquired"]
                 /\ UNCHANGED <<batches, pc>>
            [] out = "err" -> ConnFailed(g)
            [] OTHER ->
                 /\ pc' = "crashed"
                 /\ UNCHANGED <<batches, exec>>
    /\ UNCHANGED <<index, clusterVars, putVars, other, li, wi, replies, runRet>>

\* Lines 151-153: conn.send of every command of the queue, in order, into the
\* connection's pending buffer.
SendAll(g) ==
    /\ Running
    /\ exec[g].pc = "send"
    /\ exec' = [exec EXCEPT
                   ![g].buf = [j \in 1..Len(batches[g].cmds) |->
                                 [cmd |-> batches[g].cmds[j].cmd,
                                  args |-> batches[g].cmds[j].args]],
                   ![g].pc = "flush"]
    /\ UNCHANGED <<batchVars, clusterVars, putVars, other, pc, li, wi, replies, runRet>>

\* Mutant of IoFailed: the goroutine returns without the send on done.
IoFailed_NoSignal(g, err) ==
    /\ batches' = [batches EXCEPT ![g].err = err]
    /\ exec' = [exec EXCEPT ![g].conn = "shutdown", ![g].shutdowns = @ + 1,
                            ![g].pc = "returned"]

\* Mutant of IoFailed: the connection is handed back to the pool.
IoFailed_Release(g, err) ==
    /\ batches' = [batches EXCEPT ![g].err = err]
    /\ exec' = [exec EXCEPT ![g].conn = "released", ![g].released = @ + 1,
                            ![g].pc = "signal"]

\* Mutant of IoFailed: the error is recorded on every group.
IoFailed_Shared(g, err) ==
    /\ batches' = [h \in 1..Len(batches) |-> [batches[h] EXCEPT !.err = err]]
    /\ exec' = [exec EXCEPT ![g].conn = "shutdown", ![g].shutdowns = @ + 1,
                            ![g].pc = "signal"]

\* Lines 156-161 and 165-170: the exit of doBatch when flush or receive fails.
IoFailed(g, err) ==
    /\ batches' = [batches EXCEPT ![g].err = err]
    /\ exec' = [exec EXCEPT ![g].conn = "shutdown", ![g].shutdowns = @ + 1,
                            ![g].pc = "signal"]

\* Line 155 with lines 156-161
Flush(g) ==
    /\ Running
    /\ exec[g].pc = "flush"
    /\ \E out \in IoOutcomes :
          IF out = "ok"
          THEN /\ exec' = [exec EXCEPT ![g].wire = exec[g].buf, ![g].buf = <<>>,
                                       ![g].pc = "receive", ![g].k = 1]
               /\ UNCHANGED batches
          ELSE IoFailed(g, FlushErr(batches[g].node))
    /\ UNCHANGED <<index, clusterVars, putVars, other, pc, li, wi, replies, runRet>>

\* Mutant of StoreReply: every reply read is stored in the head command.
StoreReply_Head(bs, g, k, reply) ==
    [bs EXCEPT ![g].cmds[1].reply = reply]

\* Line 172: the k-th reply read is stored in the k-th command.
StoreReply(bs, g, k, reply) ==
    [bs EXCEPT ![g].cmds[k].reply = reply]

\* Lines 163-173: one iteration of the read loop.
Receive(g) ==
    /\ Running
    /\ exec[g].pc = "receive"
    /\ LET k == exec[g].k IN
       \E out \in IoOutcomes :
          IF out = "ok"
          THEN /\ batches' = StoreReply(batches, g, k,
                                        ReplyOf(batches[g].node, exec[g].wire[k]))
               /\ exec' = [exec EXCEPT
                              ![g].k = k + 1,
                              ![g].pc = IF k = Len(batches[g].cmds)
                                        THEN "release" ELSE "receive"]
          ELSE IoFailed(g, ReadErr(batches[g].node, k))
    /\ UNCHANGED <<index, clusterVars, putVars, other, pc, li, wi, replies, runRet>>

\* Line 175
Release(g) ==
    /\ Running
    /\ exec[g].pc = "release"
    /\ exec' = [exec EXCEPT ![g].conn = "released", ![g].released = @ + 1,
                            ![g].pc = "signal"]
    /\ UNCHANGED <<batchVars, clusterVars, putVars, other, pc, li, wi, replies, runRet>>

-----------------------------------------------------------------------------
(* RunBatch: the dispatcher *)

\* Line 121: the call, with every goroutine still to be started.
RunBatchCall ==
    /\ pc = "put"
    /\ pc' = "launch"
    /\ li' = 1
    /\ exec' = [g \in 1..Len(batches) |-> IdleExec]
    /\ UNCHANGED <<batchVars, clusterVars, putVars, other, wi, replies, runRet>>

\* Lines 122-124: go doBatch(&bat.batches[i])
Launch ==
    /\ pc = "launch"
    /\ IF li <= Len(batches)
       THEN /\ exec' = [exec EXCEPT ![li].pc = "getConn"]
            /\ li' = li + 1
            /\ UNCHANGED pc
       ELSE /\ pc' = "join"
            /\ li' = 1
            /\ UNCHANGED exec
    /\ UNCHANGED <<batchVars, clusterVars, putVars, other, wi, replies, runRet>>

\* Lines 126-128 with lines 147, 159, 168 and 176: the channel is unbuffered,
\* so the send of group li's goroutine and the receive of the dispatcher are
\* one step, after which the goroutine returns.
Join ==
    /\ pc = "join"
    /\ li <= Len(batches)
    /\ exec[li].pc = "signal"
    /\ exec' = [exec EXCEPT ![li].pc = "returned"]
    /\ batches' = [batches EXCEPT ![li].done = @ + 1]
    /\ li' = li + 1
    /\ UNCHANGED <<index, clusterVars, putVars, other, pc, wi, replies, runRet>>

\* Mutant of JoinEnd: the dispatcher goes on after the first signal.
JoinEnd_AfterFirst ==
    /\ pc = "join"
    /\ li > 1 \/ Len(batches) = 0
    /\ pc' = "walk"
    /\ wi' = 1
    /\ replies' = <<>>
    /\ UNCHANGED <<batchVars, clusterVars, putVars, other, li, runRet, exec>>

\* Line 130: var replies []interface{}
JoinEnd ==
    /\ pc = "join"
    /\ li > Len(batches)
    /\ pc' = "walk"
    /\ wi' = 1
    /\ replies' = <<>>
    /\ UNCHANGED <<batchVars, clusterVars, putVars, other, li, runRet, exec>>

\* What RunBatch returns: a nil slice has no elements.
Returned(rs, err) ==
    [replies |-> rs, nilReplies |-> (Len(rs) = 0), err |-> err]

\* Mutant of PopHead: the head is read and left in the queue.
PopHead_Keep(bs, i) == bs

\* Line 137: pop the head of group i's queue.
PopHead(bs, i) == [bs EXCEPT ![i].cmds = Tail(@)]

\* Mutant of FailWith: the replies rebuilt so far are returned with the error.
FailWith_Partial(rs, err) == Returned(rs, err)

\* Line 133: return nil, err; rs is the slice replies at that point.
FailWith(rs, err) == Returned(<<>>, err)

\* Mutant of GroupErr: the error of the last failing group is reported.
GroupErr_Last(bs, i) ==
    IF bs[i].err = NilErr
    THEN NilErr
    ELSE LET failing == {g \in 1..Len(bs) : bs[g].err # NilErr} IN
         bs[CHOOSE g \in failing : \A h \in failing : h <= g].err

\* Lines 132-133: the error the walk finds at group i.
GroupErr(bs, i) == bs[i].err

\* Lines 131-138: one iteration of the walk over index.
Walk ==
    /\ pc = "walk"
    /\ wi <= Len(index)
    /\ LET i == index[wi] IN
       IF GroupErr(batches, i) # NilErr
       THEN /\ runRet' = FailWith(replies, GroupErr(batches, i))
            /\ pc' = "done"
            /\ UNCHANGED <<batches, wi, replies>>
       ELSE IF Len(batches[i].cmds) = 0
       THEN /\ pc' = "crashed"
            /\ UNCHANGED <<batches, wi, replies, runRet>>
       ELSE /\ replies' = Append(replies, batches[i].cmds[1].reply)
            /\ batches' = PopHead(batches, i)
            /\ wi' = wi + 1
            /\ UNCHANGED <<pc, runRet>>
    /\ UNCHANGED <<index, clusterVars, putVars, other, li, exec>>

\* Line 140
Return ==
    /\ pc = "walk"
    /\ wi > Len(index)
    /\ runRet' = Returned(replies, NilErr)
    /\ pc' = "done"
    /\ UNCHANGED <<batchVars, clusterVars, putVars, other, li, wi, replies, exec>>

-----------------------------------------------------------------------------

\* Lines 45-51: a Batch as NewBatch returns it, with its empty history.
NewBatchValue == [batches |-> <<>>, index |-> <<>>, calls |-> <<>>]

\* No Put call was made on the Batch the caller holds.
NoCall == [cmd |-> <<>>, args |-> <<>>, rnd |-> NoRandom]

\* Lines 45-51: cluster.NewBatch().  The caller goes on with the new Batch;
\* no field of the cluster is written.
NewBatch ==
    /\ pc = "put"
    /\ batches' = NewBatchValue.batches
    /\ index' = NewBatchValue.index
    /\ calls' = NewBatchValue.calls
    /\ putCall' = NoCall
    /\ putRet' = Ok
    /\ UNCHANGED <<clusterVars, runVars, other>>

\* Line 54: the caller turns to the other Batch of the same cluster; its next
\* Put has that Batch as receiver.
SwitchBatch ==
    /\ pc = "put"
    /\ batches' = other.batches
    /\ index' = other.index
    /\ calls' = other.calls
    /\ other' = [batches |-> batches, index |-> index, calls |-> calls]
    /\ putCall' = NoCall
    /\ putRet' = Ok
    /\ UNCHANGED <<clusterVars, runVars>>

\* Cluster construction and NewBatch (lines 45-51)
Init ==
    /\ batches = <<>>
    /\ index = <<>>
    /\ transactionEnable = FALSE
    /\ transactionNode = Nil
    /\ putCall = NoCall
    /\ putRet = Ok
    /\ calls = <<>>
    /\ pc = "put"
    /\ li = 0
    /\ wi = 0
    /\ replies = <<>>
    /\ runRet = Returned(<<>>, NilErr)
    /\ other = NewBatchValue
    /\ exec = <<>>

PutAny == Put(Cmds, Keys, MaxPuts)
PutTx == Put(TxCmds, TxKeys, MaxTxPuts)
PutRun == Put(RunCmds, RunKeys, MaxRunPuts)
PutTwo ==
    /\ Len(index) + Len(other.index) < MaxTwoPuts
    /\ Put(TxCmds, TwoKeys, MaxTwoPuts)

\* The goroutines started by RunBatch
Started == 1..Len(exec)

Next ==
    \/ PutRun
    \/ RunBatchCall
    \/ Launch
    \/ Join
    \/ JoinEnd
    \/ Walk
    \/ Return
    \/ \E g \in Started : GetConn(g)
    \/ \E g \in Started : SendAll(g)
    \/ \E g \in Started : Flush(g)
    \/ \E g \in Started : Receive(g)
    \/ \E g \in Started : Release(g)

\* Put and RunBatch on a Batch of keyed commands, PING and MULTI
Spec == Init /\ [][Next]_vars

\* The positions a group can have in a Batch: one per node and one for the
\* nil node.
ExecIds == 1..(Cardinality(Nodes) + 1)

\* The steps of the goroutine of group g (lines 143-176)
DoBatchStep(g) ==
    /\ g \in Started
    /\ GetConn(g) \/ SendAll(g) \/ Flush(g) \/ Receive(g) \/ Release(g)

\* The steps of the goroutine that called RunBatch (lines 121-141)
DispatcherStep == Launch \/ Join \/ JoinEnd \/ Walk \/ Return

\* The same program under the fairness of the Go scheduler: a goroutine that
\* can take a step eventually takes one.
SpecFair ==
    /\ Init
    /\ [][Next]_vars
    /\ WF_vars(DispatcherStep)
    /\ \A g \in ExecIds : WF_vars(DoBatchStep(g))

\* Put alone, every command
NextPut == PutAny
SpecPut == Init /\ [][NextPut]_vars

\* Put alone, transactions of keyed commands
NextTx == PutTx
SpecTx == Init /\ [][NextTx]_vars

\* Put calls interleaved on two Batches of one cluster, and NewBatch
NextTwo ==
    \/ PutTwo
    \/ SwitchBatch
    \/ NewBatch
SpecTwo == Init /\ [][NextTwo]_vars

-----------------------------------------------------------------------------
(* Helpers of the claims *)

Positions == 1..Len(calls)
Groups == 1..Len(batches)

\* A call of a keyed command: one that reaches the default case, with a key
IsKeyed(c) ==
    /\ ToUpper(c.cmd) \notin {PING, MGET, MSET, MSETNX, MULTI, EXEC}
    /\ Len(c.args) > 0
IsMulti(c) == ToUpper(c.cmd) = MULTI
IsExec(c) == ToUpper(c.cmd) = EXEC

FailedGroups == {g \in Groups : batches[g].err # NilErr}

\* The positions of index that name a failing group
FailedPositions == {i \in 1..Len(index) : index[i] \in FailedGroups}

-----------------------------------------------------------------------------
(* C1: when RunBatch has returned for a Batch of keyed commands and no group *)
(* failed, the reply list has one element per successful Put call and its    *)
(* i-th element is the reply that the node of the i-th call's key produced   *)
(* for the i-th call's command, whatever the interleaving of the executors.  *)
C1_RepliesInPutOrder ==
    (/\ pc = "done"
     /\ FailedGroups = {}
     /\ \A i \in Positions : IsKeyed(calls[i]))
    => /\ runRet.err = NilErr
       /\ Len(runRet.replies) = Len(calls)
       /\ \A i \in Positions :
             runRet.replies[i] =
                 ReplyOf(getNodeByKey(calls[i].args[1]).node, calls[i])

\* Three keyed commands on nodes A, B, A were run and RunBatch returned replies.
C1_Witness ==
    /\ pc = "done"
    /\ FailedGroups = {}
    /\ Len(calls) = 3
    /\ \A i \in Positions : IsKeyed(calls[i])
    /\ calls[1].args[1] = "a"
    /\ calls[2].args[1] = "b"
    /\ calls[3].args[1] = "a"
    /\ ~runRet.nilReplies

(* C2: RunBatch is all-or-one-error.  Once it has returned: if a group holds *)
(* an error the reply list is nil and the error is not nil; a reply list     *)
(* that is not nil comes with a nil error and only when no group failed; a   *)
(* list returned with a nil error holds a reply for every index entry.       *)
C2_AllOrOneError ==
    pc = "done"
    => /\ FailedGroups # {} => (runRet.nilReplies /\ runRet.err # NilErr)
       /\ ~runRet.nilReplies => (runRet.err = NilErr /\ FailedGroups = {})
       /\ runRet.err # NilErr => runRet.replies = <<>>
       /\ runRet.err = NilErr => Len(runRet.replies) = Len(index)

\* RunBatch returned an error after it had rebuilt the reply of a command of
\* a group that succeeded: the failing group is not the first in the walk.
C2_Witness ==
    /\ pc = "done"
    /\ runRet.err # NilErr
    /\ runRet.nilReplies
    /\ Len(replies) > 0
    /\ \E g \in Groups : batches[g].err = NilErr /\ exec[g].conn = "released"

(* C3: the error RunBatch returns is the error of the group named at the     *)
(* smallest position of index whose group holds an error.                    *)
C3_FirstFailingGroup ==
    (pc = "done" /\ FailedPositions # {})
    => LET first == CHOOSE i \in FailedPositions :
                        \A j \in FailedPositions : i <= j
       IN runRet.err = batches[index[first]].err

\* RunBatch returned with two failed groups.
C3_Witness ==
    /\ pc = "done"
    /\ Cardinality(FailedGroups) >= 2
    /\ runRet.err # NilErr

-----------------------------------------------------------------------------
(* Claims about Put.  A step is a Put call when the dispatcher stays at      *)
(* "put"; putCall' and putRet' are then the call's arguments and result.     *)

IsPutStep == pc = "put" /\ pc' = "put"

\* The number of commands queued in all groups
Queued(bs) ==
    LET RECURSIVE sum(_)
        sum(g) == IF g = 0 THEN 0 ELSE Len(bs[g].cmds) + sum(g - 1)
    IN sum(Len(bs))

(* C4: a Put call that returns an error leaves the Batch unchanged: the      *)
(* groups, their command queues and the routing index are the same before    *)
(* and after the call.                                                       *)
C4_FailedPutKeepsBatch ==
    [][(IsPutStep /\ putRet' \in PutErrors) => UNCHANGED <<batches, index>>]_vars

\* A same-slot violation was returned on a Batch that holds two groups.
C4_Witness ==
    /\ putRet = ErrSlot
    /\ Len(index) >= 2
    /\ Len(batches) >= 2

(* C9: a Put of PING without arguments returns nil exactly when the random   *)
(* node selection succeeded, also while a transaction is pinned to another   *)
(* node; it then appends one command to the group of the selected node and   *)
(* one entry to the routing index, and on failure it changes nothing.        *)
C9_PingFollowsSelection ==
    [][(IsPutStep /\ EqualFold(putCall'.cmd, PING) /\ putCall'.args = <<>>)
        => /\ putRet' = Ok <=> putCall'.rnd.err = NilErr
           /\ putRet' # Ok => (putRet' = ErrPing /\ UNCHANGED <<batches, index>>)
           /\ putRet' = Ok =>
                LET g == index'[Len(index')] IN
                /\ Len(index') = Len(index) + 1
                /\ Queued(batches') = Queued(batches) + 1
                /\ batches'[g].node = putCall'.rnd.node
                /\ batches'[g].cmds[Len(batches'[g].cmds)] =
                        NewCommand(putCall'.cmd, <<>>)
                /\ SubSeq(index', 1, Len(index)) = index
                /\ \A h \in Groups \ {g} : batches'[h] = batches[h]
           /\ UNCHANGED clusterVars]_vars

\* A lower-case ping was accepted for node B while a transaction was active
\* and pinned to node A.
C9_Witness ==
    /\ transactionEnable
    /\ transactionNode = "A"
    /\ putCall.cmd # PING
    /\ EqualFold(putCall.cmd, PING)
    /\ putCall.rnd.node = "B"
    /\ putRet = Ok
    /\ batches[index[Len(index)]].node = "B"

-----------------------------------------------------------------------------
(* Claims about transactions *)

\* The node the cluster resolves the key of a keyed call to
ResolvedNode(c) == getNodeByKey(c.args[1]).node

\* A keyed call whose key the cluster resolves to a node
IsRouted(c) == IsKeyed(c) /\ getNodeByKey(c.args[1]).err = NilErr

\* Accepted calls i <= j lie in one transaction: a MULTI at or before i, and
\* no EXEC from that MULTI up to the call before j (j may be the EXEC).
SameTransaction(i, j) ==
    \E m \in 1..i :
        /\ IsMulti(calls[m])
        /\ \A e \in m..(j - 1) : ~IsExec(calls[e])

\* The accepted call m is a MULTI that opened a transaction: every MULTI
\* before it was closed by an EXEC before m.
OpensTransaction(m) ==
    /\ IsMulti(calls[m])
    /\ \A e \in 1..(m - 1) :
          IsMulti(calls[e]) => \E x \in (e + 1)..(m - 1) : IsExec(calls[x])

\* A transaction is open and no keyed command was accepted since the MULTI
\* that opened it.
NoKeyedSinceMulti ==
    /\ transactionEnable
    /\ \E m \in Positions :
          /\ OpensTransaction(m)
          /\ \A e \in m..Len(calls) : ~IsExec(calls[e]) /\ ~IsKeyed(calls[e])

(* C5: while a transaction is active and pinned to a node, a Put of a keyed  *)
(* command whose key resolves to another node returns the same-slot          *)
(* violation, enqueues nothing and leaves the transaction active and pinned  *)
(* to the same node.                                                         *)
C5_OtherNodeIsRejected ==
    [][(/\ IsPutStep
        /\ transactionEnable
        /\ transactionNode \in Nodes
        /\ IsRouted(putCall')
        /\ ResolvedNode(putCall') # transactionNode)
        => /\ putRet' = ErrSlot
           /\ UNCHANGED <<batches, index>>
           /\ UNCHANGED clusterVars]_vars

\* What the code does there: the key of the rejected command is converted
\* with a []byte type assertion, so the call returns the same-slot violation
\* for a []byte key and panics for a key of any other type; either way
\* nothing is enqueued and the transaction stays active and pinned.
C5_AsImplemented ==
    [][(/\ IsPutStep
        /\ transactionEnable
        /\ transactionNode \in Nodes
        /\ IsRouted(putCall')
        /\ ResolvedNode(putCall') # transactionNode)
        => /\ putRet' = IF IsBytes(putCall'.args[1]) THEN ErrSlot ELSE Panic
           /\ UNCHANGED <<batches, index>>
           /\ UNCHANGED clusterVars]_vars

(* C6: in every reachable state, the keyed commands that Put accepted        *)
(* between a MULTI and the next EXEC were all resolved to one node and sit   *)
(* in one group of the Batch.                                                *)
C6_KeyedOfTransactionOnOneNode ==
    \A i, j \in Positions :
        (i < j /\ IsKeyed(calls[i]) /\ IsKeyed(calls[j]) /\ SameTransaction(i, j))
        => /\ ResolvedNode(calls[i]) = ResolvedNode(calls[j])
           /\ index[i] = index[j]
           /\ batches[index[i]].node = ResolvedNode(calls[i])

\* Two keyed commands were accepted in one transaction and a command for
\* another node was rejected.
C6_Witness ==
    /\ putRet = ErrSlot
    /\ \E i, j \in Positions :
          i < j /\ IsKeyed(calls[i]) /\ IsKeyed(calls[j]) /\ SameTransaction(i, j)

(* C7: in every transaction, also one opened after an earlier transaction    *)
(* was closed with EXEC, the first keyed command put after MULTI is accepted *)
(* and fixes the transaction's node to its own node.                         *)
C7_FirstKeyedPinsItsNode ==
    [][(IsPutStep /\ NoKeyedSinceMulti /\ IsRouted(putCall'))
        => /\ putRet' = Ok
           /\ transactionNode' = ResolvedNode(putCall')]_vars

(* C8: all commands that Put accepts inside one transaction, from MULTI to   *)
(* EXEC inclusive, are enqueued in one group, that is for one node.          *)
C8_TransactionInOneGroup ==
    \A i, j \in Positions :
        (i < j /\ SameTransaction(i, j)) => index[i] = index[j]

(* C10: a Put of MULTI or EXEC without a key only flips the transaction flag: *)
(* it adds no command to a group, creates no group and appends nothing to    *)
(* the routing index.                                                        *)
C10_MultiExecEnqueueNothing ==
    [][(/\ IsPutStep
        /\ IsMulti(putCall') \/ IsExec(putCall')
        /\ putCall'.args = <<>>)
        => /\ UNCHANGED <<batches, index>>
           /\ transactionEnable' = IsMulti(putCall')]_vars

-----------------------------------------------------------------------------
(* Claims about the groups of a Batch *)

(* C11: every group of a Batch has a node that the cluster resolved: no      *)
(* group with a nil node exists, so no executor asks a nil node for a        *)
(* connection.                                                               *)
C11_EveryGroupHasNode ==
    /\ \A g \in Groups : batches[g].node \in Nodes
    /\ \A g \in Started : exec[g].pc = "getConn" => batches[g].node \in Nodes

-----------------------------------------------------------------------------
(* Claims about the executors and the join *)

\* The goroutine of group g has reached one of the exits of doBatch.
AtExit(g) == exec[g].pc \in {"signal", "returned"}

\* The replies held by the commands of group g
RepliesOf(bs, g) == [j \in 1..Len(bs[g].cmds) |-> bs[g].cmds[j].reply]

\* s is a suffix of t
IsSuffix(s, t) ==
    /\ Len(s) <= Len(t)
    /\ s = SubSeq(t, Len(t) - Len(s) + 1, Len(t))

(* C12: an executor fires its group's completion signal exactly once on      *)
(* every exit path.  At most one value ever passes through done; a goroutine *)
(* that recorded an error or disposed of its connection is at its send on    *)
(* done or past it; it has returned exactly when its value was received;     *)
(* and from its send on, the group's err and the replies of its commands     *)
(* are final.                                                                *)
C12_SignalExactlyOnce ==
    /\ [](\A g \in Started :
            /\ batches[g].done <= 1
            /\ (batches[g].err # NilErr \/ exec[g].conn \in {"released", "shutdown"})
                   => AtExit(g)
            /\ exec[g].pc = "returned" <=> batches[g].done = 1
            /\ pc \in {"walk", "done"} => batches[g].done = 1)
    /\ [][\A g \in Started :
            AtExit(g)
            => /\ batches'[g].err = batches[g].err
               /\ IsSuffix(RepliesOf(batches', g), RepliesOf(batches, g))]_vars

\* RunBatch has passed the join with one group that failed at getConn, one
\* that failed at flush or receive and one that succeeded.
C12_Witness ==
    /\ pc = "walk"
    /\ \E g \in Groups : exec[g].conn = "none" /\ batches[g].done = 1
    /\ \E g \in Groups : exec[g].conn = "shutdown" /\ batches[g].done = 1
    /\ \E g \in Groups : exec[g].conn = "released" /\ batches[g].done = 1


\* Every goroutine of the run has delivered its value on done and returned.
AllSignalled ==
    /\ Len(exec) = Len(batches)
    /\ \A g \in Groups : exec[g].pc = "returned" /\ batches[g].done = 1

(* C13: RunBatch is a full barrier.  While the dispatcher walks the index or *)
(* has returned, every group's goroutine has delivered its completion signal *)
(* and returned; and every step that rebuilds a reply, pops a queue or sets  *)
(* the result of RunBatch starts in a state where all signals were received. *)
C13_FullBarrier ==
    /\ [](pc \in {"walk", "done"} => AllSignalled)
    /\ [][(runRet' # runRet \/ replies' # replies \/ wi' > wi
             \/ \E g \in Groups : Len(batches'[g].cmds) < Len(batches[g].cmds))
          => AllSignalled]_vars

\* RunBatch returned the error of an early group that failed at getConn, and
\* a later group has run its whole exchange and released its connection.
C13_Witness ==
    /\ pc = "done"
    /\ runRet.err # NilErr
    /\ \E g, h \in Groups :
          /\ g < h
          /\ batches[g].err = ConnErr(batches[g].node)
          /\ exec[h].conn = "released"
          /\ AllSignalled


(* C14: RunBatch always returns.  Under fair scheduling, and as long as no   *)
(* call to the pool fails to return (the panic of getConn, after which the   *)
(* program has crashed), every started goroutine eventually has its value on *)
(* done received and returns, and a RunBatch that started launching          *)
(* eventually returns with every signal received.                            *)
C14_RunBatchReturns ==
    /\ (pc = "launch") ~> (pc = "crashed" \/ (pc = "done" /\ AllSignalled))
    /\ \A g \in ExecIds :
          (g \in Started /\ exec[g].pc = "getConn")
              ~> (pc = "crashed"
                    \/ (g \in Started /\ exec[g].pc = "returned"
                                      /\ batches[g].done = 1))

\* The dispatcher waits for the first group while the goroutines of two later
\* groups are already blocked on their send: the executors finish out of the
\* order in which their signals are received.
C14_Witness ==
    /\ pc = "join"
    /\ li = 1
    /\ Len(exec) = 3
    /\ exec[1].pc \notin {"signal", "returned"}
    /\ exec[2].pc = "signal"
    /\ exec[3].pc = "signal"


\* The step of doBatch at which group g failed, "none" if it did not fail
FailedAt(g) == IF batches[g].err = NilErr THEN "none" ELSE batches[g].err[1]

(* C15: by the time a goroutine is at its send on done, the connection it    *)
(* acquired was released to the pool exactly when the flush and every read   *)
(* succeeded, and shut down and not released exactly when the flush or a     *)
(* read failed; it is never both, never still acquired, and a goroutine      *)
(* whose getConn failed released and shut down nothing.  No connection is    *)
(* ever released or shut down twice.                                         *)
C15_ConnectionFate ==
    \A g \in Started :
        /\ exec[g].released + exec[g].shutdowns <= 1
        /\ AtExit(g) =>
              /\ exec[g].conn # "acquired"
              /\ exec[g].released = 1 <=> FailedAt(g) = "none"
              /\ exec[g].shutdowns = 1 <=> FailedAt(g) \in {"flush", "receive"}
              /\ FailedAt(g) = "getConn" =>
                    /\ exec[g].conn = "none"
                    /\ exec[g].released = 0
                    /\ exec[g].shutdowns = 0

\* Three goroutines are at their exit: one released its connection, one shut
\* its connection down after a failed read, one never got a connection.
C15_Witness ==
    /\ \E g \in Started : AtExit(g) /\ exec[g].released = 1 /\ exec[g].conn = "released"
    /\ \E g \in Started : AtExit(g) /\ exec[g].shutdowns = 1 /\ FailedAt(g) = "receive"
    /\ \E g \in Started : AtExit(g) /\ FailedAt(g) = "getConn"


\* The join is passed and the walk has not popped anything yet.
AfterJoin == pc = "walk" /\ wi = 1

\* The goroutine of group g ran its whole exchange: every command of the
\* queue went over the wire and holds the reply of the group's own node.
FullExchange(g) ==
    /\ exec[g].conn = "released"
    /\ Len(exec[g].wire) = Len(batches[g].cmds)
    /\ \A j \in 1..Len(batches[g].cmds) :
          /\ batches[g].cmds[j].reply # NilReply
          /\ batches[g].cmds[j].reply = ReplyOf(batches[g].node, exec[g].wire[j])

\* The acquisition, the flush or a read of group g's own goroutine failed.
OwnFailure(g) == exec[g].conn = "none" \/ exec[g].shutdowns = 1

(* C16: failures are isolated per group.  While the goroutines run, a step   *)
(* that writes the err, a reply or the done of a group writes those of one   *)
(* group only and is a step of that group's goroutine; so after the join a   *)
(* group's err is set exactly when its own acquisition, flush or read        *)
(* failed, it names the group's own node, and every other group has run its  *)
(* full exchange and holds a reply for each of its commands.                 *)
C16_FailuresIsolated ==
    /\ [](AfterJoin =>
            \A g \in Groups :
               /\ batches[g].err # NilErr <=> OwnFailure(g)
               /\ batches[g].err # NilErr => batches[g].err[2] = batches[g].node
               /\ batches[g].err = NilErr => FullExchange(g))
    /\ [][Running =>
            \A g \in Groups : \A h \in Groups :
               batches'[g] # batches[g]
               => /\ exec'[g] # exec[g]
                  /\ h # g => batches'[h] = batches[h] /\ exec'[h] = exec[h]]_vars

\* After the join one group holds the error of its failed flush and another
\* group holds the replies of its two commands.
C16_Witness ==
    /\ AfterJoin
    /\ \E g, h \in Groups :
          /\ FailedAt(g) = "flush"
          /\ batches[h].err = NilErr
          /\ Len(batches[h].cmds) = 2
          /\ FullExchange(h)


\* The commands of group g's queue, in queue order, as they go to conn.send
QueueOf(g) ==
    [j \in 1..Len(batches[g].cmds) |->
        [cmd |-> batches[g].cmds[j].cmd, args |-> batches[g].cmds[j].args]]

\* Exactly the first n commands of group g hold a reply, each the reply to
\* the command at its own position.
HoldsReplies(g, n) ==
    \A j \in 1..Len(batches[g].cmds) :
        batches[g].cmds[j].reply =
            IF j <= n THEN ReplyOf(batches[g].node, QueueOf(g)[j]) ELSE NilReply

(* C17: within one goroutine all commands of the group are sent in queue     *)
(* order before the single flush, and replies are read only after the flush, *)
(* one per command in the same order.  At the flush the pending buffer is    *)
(* the whole queue and no reply is set; what went over the wire is the queue *)
(* in order; while reading, exactly the commands before the loop variable    *)
(* hold their replies.  If the flush fails nothing went over the wire and    *)
(* every reply stays unset; if the k-th read fails the commands before k     *)
(* hold their replies, those from k on stay unset, the read loop stopped at  *)
(* k and the group's err is set.                                             *)
C17_PipelinedExchange ==
    Running =>
      \A g \in Started :
        /\ exec[g].pc \in {"idle", "getConn", "send"}
              => exec[g].buf = <<>> /\ exec[g].wire = <<>> /\ HoldsReplies(g, 0)
        /\ exec[g].pc = "flush"
              => exec[g].buf = QueueOf(g) /\ exec[g].wire = <<>> /\ HoldsReplies(g, 0)
        /\ exec[g].pc = "receive"
              => exec[g].wire = QueueOf(g) /\ HoldsReplies(g, exec[g].k - 1)
        /\ (exec[g].pc = "release" \/ exec[g].conn = "released")
              => exec[g].wire = QueueOf(g) /\ HoldsReplies(g, Len(batches[g].cmds))
        /\ FailedAt(g) = "flush"
              => AtExit(g) /\ exec[g].wire = <<>> /\ HoldsReplies(g, 0)
        /\ FailedAt(g) = "receive"
              => /\ AtExit(g)
                 /\ exec[g].wire = QueueOf(g)
                 /\ exec[g].k = batches[g].err[3]
                 /\ HoldsReplies(g, exec[g].k - 1)

\* The second read of a group of two or more commands failed: the first
\* command holds its reply.
C17_Witness ==
    /\ Running
    /\ \E g \in Started :
          /\ FailedAt(g) = "receive"
          /\ batches[g].err[3] = 2
          /\ batches[g].cmds[1].reply # NilReply
          /\ batches[g].cmds[2].reply = NilReply


-----------------------------------------------------------------------------
(* Claims about the groups and the routing index *)

\* The positions of index that name group g
EntriesOf(g) == {i \in 1..Len(index) : index[i] = g}

\* The first Put that touched group g
FirstTouch(g) == CHOOSE i \in EntriesOf(g) : \A j \in EntriesOf(g) : i <= j

(* C18: after any sequence of Put calls no two groups of a Batch have the    *)
(* same node, every group was touched by a Put and the groups are in the     *)
(* order of the first Put that touched them; a Put that resolves to a node   *)
(* already present appends to that node's group and creates no group.        *)
C18_OneGroupPerNode ==
    /\ [](pc = "put" =>
            /\ \A g \in Groups : \A h \in Groups :
                  g # h => batches[g].node # batches[h].node
            /\ \A g \in Groups : EntriesOf(g) # {}
            /\ \A g \in Groups : \A h \in Groups :
                  g < h => FirstTouch(g) < FirstTouch(h))
    /\ [][(IsPutStep /\ Len(index') = Len(index) + 1) =>
            LET g == index'[Len(index')] IN
            IF \E h \in Groups : batches[h].node = batches'[g].node
            THEN /\ Len(batches') = Len(batches)
                 /\ batches[g].node = batches'[g].node
                 /\ Len(batches'[g].cmds) = Len(batches[g].cmds) + 1
            ELSE /\ Len(batches') = Len(batches) + 1
                 /\ g = Len(batches')]_vars

\* Puts to node A, to node B and to node A again: two groups, A first, the
\* third command in A's group.
C18_Witness ==
    /\ Len(index) >= 3
    /\ index[1] = 1 /\ index[2] = 2 /\ index[3] = 1
    /\ Len(batches) = 2
    /\ batches[1].node = "A" /\ batches[2].node = "B"
    /\ Len(batches[1].cmds) = 2


\* The rank of position i among the index entries that name its group
RankOf(i) == Cardinality({j \in EntriesOf(index[i]) : j <= i})

(* C19: before RunBatch the routing index has exactly one entry per Put call *)
(* that returned success, every entry is a valid group position, each group  *)
(* is named by as many entries as its queue has commands, and the j-th entry *)
(* naming a group belongs to the j-th command of its queue, the command of   *)
(* that Put call.  Hence during the walk each group's queue holds exactly    *)
(* the commands of the entries not yet visited, and the head-pop finds a     *)
(* head.                                                                     *)
C19_IndexMatchesQueues ==
    /\ [](pc = "put" =>
            /\ Len(index) = Len(calls)
            /\ \A i \in 1..Len(index) : index[i] \in Groups
            /\ \A g \in Groups : Cardinality(EntriesOf(g)) = Len(batches[g].cmds)
            /\ \A i \in 1..Len(index) :
                  /\ RankOf(i) <= Len(batches[index[i]].cmds)
                  /\ batches[index[i]].cmds[RankOf(i)]
                        = NewCommand(calls[i].cmd, calls[i].args))
    /\ [](pc = "walk" =>
            /\ \A g \in Groups :
                  Len(batches[g].cmds)
                     = Cardinality({i \in EntriesOf(g) : i >= wi})
            /\ wi <= Len(index) => Len(batches[index[wi]].cmds) > 0)
    /\ [][IsPutStep =>
            IF putRet' = Ok
            THEN index' = Append(index, index'[Len(index')])
            ELSE index' = index /\ batches' = batches]_vars

\* The walk has popped the heads of two groups and visits the first group a
\* second time.
C19_Witness ==
    /\ pc = "walk"
    /\ wi = 3
    /\ Len(index) = 3
    /\ index[3] = index[1]
    /\ index[2] # index[1]
    /\ Len(replies) = 2
    /\ Len(batches[index[3]].cmds) = 1


-----------------------------------------------------------------------------
(* Claims about two Batches of one cluster *)

\* A step that is a Put call on the Batch the caller holds
IsPutCall == IsPutStep /\ putCall' # NoCall

\* A MULTI and after it a keyed command resolved to node n were accepted on
\* the Batch with history cs.
PinnedBy(cs, n) ==
    \E m, i \in 1..Len(cs) :
        /\ m < i
        /\ IsMulti(cs[m])
        /\ IsRouted(cs[i])
        /\ ResolvedNode(cs[i]) = n

\* The Batch with history cs never received MULTI
NeverMulti(cs) == \A i \in 1..Len(cs) : ~IsMulti(cs[i])

\* The step is a keyed Put, on a Batch that never received MULTI, of a key
\* resolving to another node than the one pinned by a MULTI and a keyed Put
\* on the other Batch.
CrossBatchPut ==
    /\ IsPutCall
    /\ NeverMulti(calls)
    /\ transactionEnable
    /\ transactionNode \in Nodes
    /\ PinnedBy(other.calls, transactionNode)
    /\ IsRouted(putCall')
    /\ ResolvedNode(putCall') # transactionNode

(* C20: the transaction flag and the pinned node belong to the cluster and   *)
(* not to a Batch.  When a MULTI and a keyed Put on one Batch pinned a node, *)
(* a keyed Put on another Batch of the cluster that never received MULTI and *)
(* whose key resolves to a different node returns the same-slot violation;   *)
(* and NewBatch changes neither the flag nor the pin.                        *)
C20_TransactionIsClusterScoped ==
    /\ [][CrossBatchPut => putRet' = ErrSlot]_vars
    /\ [][NewBatch => UNCHANGED clusterVars]_vars

\* What the code does there: the Put on the other Batch is rejected by the
\* cluster's flag and pin, with the same-slot violation for a []byte key and
\* with a panic of the type assertion of line 90 for a key of any other type;
\* nothing is enqueued on either Batch and the flag and the pin stay.
C20_AsImplemented ==
    /\ [][CrossBatchPut =>
            /\ putRet' = IF IsBytes(putCall'.args[1]) THEN ErrSlot ELSE Panic
            /\ UNCHANGED <<batches, index, other, clusterVars>>]_vars
    /\ [][NewBatch => UNCHANGED clusterVars]_vars

\* A Put on a Batch that never received MULTI was rejected with the
\* same-slot violation while the other Batch holds the MULTI and the pin.
C20_CrossBatchRejected ==
    /\ putRet = ErrSlot
    /\ NeverMulti(calls)
    /\ transactionEnable
    /\ PinnedBy(other.calls, transactionNode)

====
